---- MODULE Spec2Model ----
(***************************************************************************)
(* SpatialSink (src/src/spatial_sink.rs): a Sink whose appended sources    *)
(* are wrapped in a Spatial adapter that a periodic callback keeps in step *)
(* with a shared Arc<Mutex<SoundPositions>>.                               *)
(*                                                                         *)
(* Two threads: the control thread (the caller of the SpatialSink methods) *)
(* and the audio thread (pulls samples from the Sink's queue and runs the  *)
(* periodic_access callbacks synchronously inside the pull).  A second     *)
(* caller thread appears only while the first is blocked in                *)
(* sleep_until_end.  The Arc is followed by its strong count, the Mutex by *)
(* its owner and its poison.                                               *)
(*                                                                         *)
(* Sink, Spatial and PeriodicAccess live outside src/src/spatial_sink.rs;  *)
(* their behaviour is taken from the specification (sections 4.2, 4.3,     *)
(* 4.5) and is kept in the Sink_* / Spatial_* / periodic_access operators. *)
(***************************************************************************)
EXTENDS Integers, Sequences, FiniteSets, TLC

\* ------------------------------------------------------------------ bounds
\* Number of sources the control thread appends in one run.
MaxSources == 3
\* The same, for the callers that also move the emitter and the ears.
MaxSpatial == 2
\* Longest source, in samples: long enough for a second tick.
MaxLen == 4
\* Samples a source yields in the 10 ms of Duration::from_millis(10), that is
\* between two ticks of its periodic callback; it depends on the sample rate
\* and the channel count of the source.
Interval == 2
\* Samples of one audio block (the lateness the spec allows a tick).
Block == 1

\* ------------------------------------------------------------------ values
\* [f32; 3] vectors.  Two whole values; a vector with mixed components can
\* only come from a write observed half way.
VecA == <<0, 0, 0>>
VecB == <<1, 1, 1>>
Vecs == {VecA, VecB}
\* f32 values of volume and speed (1 is the unity 1.0).
F32s == {1, 2}
\* What Sink::try_new(stream) gives for the stream: "valid", or the PlayError.
PlayErrors == {"NoDevice", "DecoderError"}
Streams == {"valid"} \cup PlayErrors
\* Lengths of the appended sources.
SrcLens == {1, MaxLen}

Fields == {"emitter_position", "left_ear", "right_ear"}

NoCell == [emitter_position |-> <<>>, left_ear |-> <<>>, right_ear |-> <<>>]
NoSink == [queue |-> <<>>, paused |-> FALSE, volume |-> 0, speed |-> 0]
NoSrc  == [id |-> 0, remaining |-> 0, until |-> 0, pos |-> NoCell, stale |-> 0]
NoRet  == <<"none", 0>>
\* What the caller of a method that panicked gets: the unwinding.
Panic  == <<"panic", 0>>
Unit   == <<"unit", 0>>

VARIABLES
    stream,     \* the OutputStreamHandle given to try_new
    handle,     \* "none" | "alive" | "failed" | "detached" | "dropped"
    cell,       \* SoundPositions inside the Arc<Mutex<..>>
    strong,     \* strong count of the Arc
    lock,       \* owner of the Mutex: "free" | "ctl" | "aud", or "poisoned"
                \* (nobody holds it; a thread panicked while it did)
    sink,       \* the underlying Sink: queue of sources, paused, volume, speed
    nextId,     \* number of sources appended so far
    ctlpc,      \* control thread: position inside the running method
    ctlop,      \* control thread: the method running / last run
    ctlarg,     \* control thread: its argument
    newsrc,     \* append: the local `source` built by Spatial::new(..).periodic_access(..)
    ret,        \* value returned by the last method that returned
    audpc,      \* audio thread: position inside the pull of one sample,
                \* "panicked" once a callback has panicked
    asnap,      \* audio thread: arguments of set_positions read so far
    lastSet,    \* history: per field, the argument of the last setter that returned
    devTime,    \* history: device samples since set_left_ear_position last
                \* returned; -1 in a run that keeps no time
    clearedTo,  \* history: highest id of the sources removed by clear()
    writes      \* history: setters that returned since the last tick was
                \* over (2 stands for several); -1 in a run that does not count

vars == <<stream, handle, cell, strong, lock, sink, nextId, ctlpc, ctlop, ctlarg,
          newsrc, ret, audpc, asnap, lastSet, devTime, clearedTo, writes>>

ctlvars == <<ctlpc, ctlop, ctlarg, newsrc, ret>>
audvars == <<audpc, asnap>>
histvars == <<lastSet, devTime, clearedTo, writes>>

Min(a, b) == IF a < b THEN a ELSE b

\* History clocks: one more sample has gone by / the clock starts again.
\* A run that keeps no time (devTime = -1) leaves them alone.
Timed == devTime >= 0
Later(t, cap) == IF Timed THEN Min(t + 1, cap) ELSE t
\* The count of the writes: one more setter has returned.
Counted == writes >= 0
OneMore(n) == IF Counted THEN Min(n + 1, 2) ELSE n

\* ------------------------------------------------------- Sink (spec 4.5)
\* A fresh Sink: empty queue, playing, unity volume and speed.
Sink_new == [queue |-> <<>>, paused |-> FALSE, volume |-> 1, speed |-> 1]
\* Sink::try_new(stream): Ok(sink) on a valid stream, Err(PlayError) otherwise.
Sink_try_new(st) == IF st = "valid" THEN <<"ok", Sink_new>> ELSE <<"err", st>>
Sink_append(s, src)    == [s EXCEPT !.queue = Append(@, src)]
Sink_volume(s)         == s.volume
Sink_set_volume(s, v)  == [s EXCEPT !.volume = v]
Sink_speed(s)          == s.speed
Sink_set_speed(s, v)   == [s EXCEPT !.speed = v]
Sink_play(s)           == [s EXCEPT !.paused = FALSE]
Sink_pause(s)          == [s EXCEPT !.paused = TRUE]
Sink_is_paused(s)      == s.paused
\* clear: drop all queued sources and enter the paused state.
Sink_clear(s)          == [s EXCEPT !.queue = <<>>, !.paused = TRUE]
\* stop: drop all queued sources.
Sink_stop(s)           == [s EXCEPT !.queue = <<>>]
\* detach: the queue keeps playing, nothing of the sink changes.
Sink_detach(s)         == s
Sink_len(s)            == Len(s.queue)
Sink_empty(s)          == Sink_len(s) = 0
\* The Sink takes sources out of its queue between two pulls of the audio
\* thread, never in the middle of one.
Sink_can_drop          == audpc = "idle"
\* sleep_until_end returns once the queue has drained.
Sink_drained(s)        == Sink_empty(s)

\* --------------------------------------- Spatial adapter (spec 4.2, 4.3)
\* Spatial::new(source, emitter, left, right).periodic_access(10 ms, cb):
\* the adapter stores the triple; the shell counts the samples to its next tick.
Spatial_new(id, len, e, l, r) ==
    [id |-> id, remaining |-> len, until |-> Interval,
     pos |-> [emitter_position |-> e, left_ear |-> l, right_ear |-> r],
     stale |-> 0]
\* Spatial::set_positions(emitter, left, right)
Spatial_set_positions(src, e, l, r) ==
    [src EXCEPT !.pos = [emitter_position |-> e, left_ear |-> l, right_ear |-> r]]

\* ------------------------------------------------------- the Arc of positions
\* Sources that leave the queue when it goes from q to q2; each one is
\* dropped with its callback closure, which owns one clone of the Arc.
Dropped(q, q2) == Len(q) - Len(q2)

\* n clones of the Arc are dropped: the strong count goes down by n and the
\* SoundPositions is released with the last one.
Arc_drop(n) ==
    /\ strong' = strong - n
    /\ cell' = IF strong - n = 0 THEN NoCell ELSE cell

\* ------------------------------------------------- the Mutex of positions
\* Faulty variant: a lock that excludes nobody.
CanLockAlways(t) == TRUE

\* Faulty variant: the poison of the lock is ignored.
CanLock_ignores_poison(t) == lock \in {"free", "poisoned"}

\* Mutex::lock(): thread t gets the lock when nobody holds it.
CanLock(t) == lock = "free"

\* ------------------------------------------------ control thread: helpers
Alive == handle = "alive" /\ ctlpc = "idle"

\* A method returns value v to its caller.
Returns(op, arg, v) ==
    /\ ctlpc' = "ret"
    /\ ctlop' = op
    /\ ctlarg' = arg
    /\ ret' = v

\* The caller has taken the returned value; it may call the next method.
Return ==
    /\ ctlpc = "ret"
    /\ ctlpc' = "idle"
    /\ ctlop' = "none"
    /\ ctlarg' = 0
    /\ ret' = NoRet
    /\ UNCHANGED <<strong, stream, handle, cell, lock, sink, nextId, newsrc>>
    /\ UNCHANGED audvars
    /\ UNCHANGED histvars

\* ------------------------------------------------------------- try_new
\* Faulty variant: the error of Sink::try_new is replaced by a fixed PlayError.
try_new_remaps_error(e, l, r) ==
    /\ handle = "none"
    /\ ctlpc = "idle"
    /\ LET res == Sink_try_new(stream) IN
         IF res[1] = "err"
         THEN /\ handle' = "failed"
              /\ Returns("try_new", <<e, l, r>>, <<"err", "NoDevice">>)
              /\ UNCHANGED <<cell, strong, sink, lastSet>>
         ELSE /\ handle' = "alive"
              /\ sink' = res[2]
              /\ cell' = [emitter_position |-> e, left_ear |-> l, right_ear |-> r]
              /\ strong' = 1
              /\ lastSet' = [emitter_position |-> e, left_ear |-> l, right_ear |-> r]
              /\ Returns("try_new", <<e, l, r>>, <<"ok", 0>>)
    /\ UNCHANGED <<stream, lock, nextId, newsrc, devTime, clearedTo, writes>>
    /\ UNCHANGED audvars

\* SpatialSink::try_new(stream, emitter_position, left_ear, right_ear):
\* `Sink::try_new(stream)?` returns the error as it is; otherwise the handle
\* gets the sink and a fresh Arc<Mutex<SoundPositions>> holding the arguments.
try_new(e, l, r) ==
    /\ handle = "none"
    /\ ctlpc = "idle"
    /\ LET res == Sink_try_new(stream) IN
         IF res[1] = "err"
         THEN /\ handle' = "failed"
              /\ Returns("try_new", <<e, l, r>>, <<"err", res[2]>>)
              /\ UNCHANGED <<cell, strong, sink, lastSet>>
         ELSE /\ handle' = "alive"
              /\ sink' = res[2]
              /\ cell' = [emitter_position |-> e, left_ear |-> l, right_ear |-> r]
              /\ strong' = 1
              /\ lastSet' = [emitter_position |-> e, left_ear |-> l, right_ear |-> r]
              /\ Returns("try_new", <<e, l, r>>, <<"ok", 0>>)
    /\ UNCHANGED <<stream, lock, nextId, newsrc, devTime, clearedTo, writes>>
    /\ UNCHANGED audvars

\* ------------------------------------------------------ position setters
\* The field of SoundPositions a setter assigns.
FieldOf(op) ==
    CASE op = "set_emitter_position"   -> "emitter_position"
      [] op = "set_left_ear_position"  -> "left_ear"
      [] op = "set_right_ear_position" -> "right_ear"

\* A setter is entered: it goes for the lock.
SetterCall(op, pos) ==
    /\ Alive
    /\ ctlpc' = "set_lock"
    /\ ctlop' = op
    /\ ctlarg' = pos
    /\ UNCHANGED <<strong, stream, handle, cell, lock, sink, nextId, newsrc, ret>>
    /\ UNCHANGED audvars
    /\ UNCHANGED histvars

set_emitter_position(pos)   == SetterCall("set_emitter_position", pos)
set_left_ear_position(pos)  == SetterCall("set_left_ear_position", pos)
set_right_ear_position(pos) == SetterCall("set_right_ear_position", pos)

\* self.positions.lock().unwrap()
SetLock ==
    /\ ctlpc = "set_lock"
    /\ CanLock("ctl")
    /\ lock' = "ctl"
    /\ ctlpc' = "set_w1"
    /\ UNCHANGED <<strong, stream, handle, cell, sink, nextId, ctlop, ctlarg, newsrc, ret>>
    /\ UNCHANGED audvars
    /\ UNCHANGED histvars

\* Faulty variant: every setter stores into the left ear.
SetWrite_left_ear(i) ==
    /\ ctlpc = IF i = 1 THEN "set_w1" ELSE "set_w2"
    /\ cell' = [cell EXCEPT !.left_ear[i] = ctlarg[i]]
    /\ ctlpc' = IF i = 1 THEN "set_w2" ELSE "set_w3"
    /\ UNCHANGED <<strong, stream, handle, lock, sink, nextId, ctlop, ctlarg, newsrc, ret>>
    /\ UNCHANGED audvars
    /\ UNCHANGED histvars

\* `.field = pos`: the three f32 of the array are stored one after the other.
SetWrite(i) ==
    /\ ctlpc = IF i = 1 THEN "set_w1" ELSE "set_w2"
    /\ cell' = [cell EXCEPT ![FieldOf(ctlop)][i] = ctlarg[i]]
    /\ ctlpc' = IF i = 1 THEN "set_w2" ELSE "set_w3"
    /\ UNCHANGED <<strong, stream, handle, lock, sink, nextId, ctlop, ctlarg, newsrc, ret>>
    /\ UNCHANGED audvars
    /\ UNCHANGED histvars

\* History kept when set_left_ear_position returns: the clocks of the
\* update-latency property start again.
Restart(q) == [i \in 1..Len(q) |-> [q[i] EXCEPT !.stale = 0]]

\* Faulty variant: the setter also pushes its argument into the adapters of
\* the queued sources.
SetDone_pushes ==
    /\ ctlpc = "set_w3"
    /\ cell' = [cell EXCEPT ![FieldOf(ctlop)][3] = ctlarg[3]]
    /\ lock' = "free"
    /\ lastSet' = [lastSet EXCEPT ![FieldOf(ctlop)] = ctlarg]
    /\ writes' = OneMore(writes)
    /\ devTime' = IF Timed /\ ctlop = "set_left_ear_position" THEN 0 ELSE devTime
    /\ sink' = [sink EXCEPT !.queue =
                   [i \in 1..Len(@) |->
                       [@[i] EXCEPT !.pos[FieldOf(ctlop)] = ctlarg,
                                    !.stale = IF ctlop = "set_left_ear_position"
                                              THEN 0 ELSE @]]]
    /\ Returns(ctlop, ctlarg, Unit)
    /\ UNCHANGED <<strong, stream, handle, nextId, newsrc, clearedTo>>
    /\ UNCHANGED audvars

\* The last f32 is stored, the guard is dropped and the setter returns.
SetDone ==
    /\ ctlpc = "set_w3"
    /\ cell' = [cell EXCEPT ![FieldOf(ctlop)][3] = ctlarg[3]]
    /\ lock' = "free"
    /\ lastSet' = [lastSet EXCEPT ![FieldOf(ctlop)] = ctlarg]
    /\ writes' = OneMore(writes)
    /\ IF ctlop = "set_left_ear_position"
       THEN /\ devTime' = IF Timed THEN 0 ELSE devTime
            /\ sink' = [sink EXCEPT !.queue = Restart(@)]
       ELSE UNCHANGED <<devTime, sink>>
    /\ Returns(ctlop, ctlarg, Unit)
    /\ UNCHANGED <<strong, stream, handle, nextId, newsrc, clearedTo>>
    /\ UNCHANGED audvars

\* ---------------------------------------------------------------- append
\* Faulty variant: one clone for the local and one more for the closure.
append_clones_twice(len) ==
    /\ Alive
    /\ nextId < MaxSources
    /\ ctlpc' = "app_lock"
    /\ ctlop' = "append"
    /\ ctlarg' = len
    /\ strong' = strong + 2
    /\ UNCHANGED <<stream, handle, cell, lock, sink, nextId, newsrc, ret>>
    /\ UNCHANGED audvars
    /\ UNCHANGED histvars

\* A source of `len` samples is handed to append; line 63 clones the Arc
\* (the clone is moved into the callback closure, and with the source into
\* the queue) and line 64 goes for the lock.
append(len) ==
    /\ Alive
    /\ nextId < MaxSources
    /\ ctlpc' = "app_lock"
    /\ ctlop' = "append"
    /\ ctlarg' = len
    /\ strong' = strong + 1
    /\ UNCHANGED <<stream, handle, cell, lock, sink, nextId, newsrc, ret>>
    /\ UNCHANGED audvars
    /\ UNCHANGED histvars

\* let pos_lock = self.positions.lock().unwrap();
AppLock ==
    /\ ctlpc = "app_lock"
    /\ CanLock("ctl")
    /\ lock' = "ctl"
    /\ ctlpc' = "app_new"
    /\ UNCHANGED <<strong, stream, handle, cell, sink, nextId, ctlop, ctlarg, newsrc, ret>>
    /\ UNCHANGED audvars
    /\ UNCHANGED histvars

\* Faulty variant: the two ears handed to Spatial::new in the wrong order.
append_snapshot_swapped ==
    [cell EXCEPT !.left_ear = cell.right_ear, !.right_ear = cell.left_ear]

\* The three vectors append reads through pos_lock.
append_snapshot == cell

\* Spatial::new(source, pos_lock.emitter_position, pos_lock.left_ear,
\* pos_lock.right_ear).periodic_access(Duration::from_millis(10), ..)
AppNew ==
    /\ ctlpc = "app_new"
    /\ newsrc' = Spatial_new(nextId + 1, ctlarg, append_snapshot.emitter_position,
                             append_snapshot.left_ear, append_snapshot.right_ear)
    /\ ctlpc' = "app_push"
    /\ UNCHANGED <<strong, stream, handle, cell, lock, sink, nextId, ctlop, ctlarg, ret>>
    /\ UNCHANGED audvars
    /\ UNCHANGED histvars

\* self.sink.append(source);  (pos_lock is still alive here)
AppPush ==
    /\ ctlpc = "app_push"
    /\ sink' = Sink_append(sink, newsrc)
    /\ nextId' = nextId + 1
    /\ newsrc' = NoSrc
    /\ ctlpc' = "app_unlock"
    /\ UNCHANGED <<strong, stream, handle, cell, lock, ctlop, ctlarg, ret>>
    /\ UNCHANGED audvars
    /\ UNCHANGED histvars

\* Faulty variant: append returns with the guard leaked, the lock still held.
AppDone_leaks_guard ==
    /\ ctlpc = "app_unlock"
    /\ Returns("append", ctlarg, Unit)
    /\ UNCHANGED <<strong, stream, handle, cell, lock, sink, nextId, newsrc>>
    /\ UNCHANGED audvars
    /\ UNCHANGED histvars

\* End of append: pos_lock goes out of scope, the lock is released.
AppDone ==
    /\ ctlpc = "app_unlock"
    /\ lock' = "free"
    /\ Returns("append", ctlarg, Unit)
    /\ UNCHANGED <<strong, stream, handle, cell, sink, nextId, newsrc>>
    /\ UNCHANGED audvars
    /\ UNCHANGED histvars

\* ---------------------------------------------------- control forwardings
\* A method whose body is one call of the underlying sink: the sink becomes
\* s2 and v is returned.
Forward(op, arg, s2, v) ==
    /\ Alive
    /\ sink' = s2
    /\ Arc_drop(Dropped(sink.queue, s2.queue))
    /\ Returns(op, arg, v)
    /\ UNCHANGED <<stream, handle, lock, nextId, newsrc>>
    /\ UNCHANGED audvars
    /\ UNCHANGED <<lastSet, devTime, writes>>

\* Faulty variant: empty() forwarded to the wrong one-line method.
empty_value_as_is_paused == Sink_is_paused(sink)

\* The values the reading methods return: self.sink.volume(), ..
volume_value    == Sink_volume(sink)
speed_value     == Sink_speed(sink)
is_paused_value == Sink_is_paused(sink)
empty_value     == Sink_empty(sink)
len_value       == Sink_len(sink)

\* Faulty variant: set_speed forwarded to set_volume.
set_speed_as_set_volume(v) ==
    Forward("set_speed", v, Sink_set_volume(sink, v), Unit) /\ UNCHANGED clearedTo

\* Faulty variant: play forwarded to pause.
play_as_pause ==
    Forward("play", 0, Sink_pause(sink), Unit) /\ UNCHANGED clearedTo

volume        == Forward("volume", 0, sink, <<"f32", volume_value>>) /\ UNCHANGED clearedTo
set_volume(v) == Forward("set_volume", v, Sink_set_volume(sink, v), Unit) /\ UNCHANGED clearedTo
speed         == Forward("speed", 0, sink, <<"f32", speed_value>>) /\ UNCHANGED clearedTo
set_speed(v)  == Forward("set_speed", v, Sink_set_speed(sink, v), Unit) /\ UNCHANGED clearedTo
play          == Forward("play", 0, Sink_play(sink), Unit) /\ UNCHANGED clearedTo
pause         == Forward("pause", 0, Sink_pause(sink), Unit) /\ UNCHANGED clearedTo
is_paused     == Forward("is_paused", 0, sink, <<"bool", is_paused_value>>) /\ UNCHANGED clearedTo
empty         == Forward("empty", 0, sink, <<"bool", empty_value>>) /\ UNCHANGED clearedTo
len           == Forward("len", 0, sink, <<"usize", len_value>>) /\ UNCHANGED clearedTo

\* Faulty variant: clear forwarded to stop.
clear_as_stop ==
    /\ Sink_can_drop
    /\ Forward("clear", 0, Sink_stop(sink), Unit)
    /\ clearedTo' = IF sink.queue = <<>> THEN clearedTo ELSE sink.queue[Len(sink.queue)].id

clear ==
    /\ Sink_can_drop
    /\ Forward("clear", 0, Sink_clear(sink), Unit)
    /\ clearedTo' = IF sink.queue = <<>> THEN clearedTo ELSE sink.queue[Len(sink.queue)].id

stop ==
    /\ Sink_can_drop
    /\ Forward("stop", 0, Sink_stop(sink), Unit)
    /\ UNCHANGED clearedTo

\* Faulty variant: the handle is consumed without detaching the sink, which
\* stops its sounds.
detach_stops ==
    /\ Alive
    /\ Sink_can_drop
    /\ handle' = "detached"
    /\ sink' = Sink_stop(sink)
    /\ Arc_drop(1 + Len(sink.queue))
    /\ Returns("detach", 0, Unit)
    /\ UNCHANGED <<stream, lock, nextId, newsrc>>
    /\ UNCHANGED audvars
    /\ UNCHANGED histvars

\* detach(self): the handle is consumed with its clone of the Arc, the sink
\* is detached.
detach ==
    /\ Alive
    /\ handle' = "detached"
    /\ sink' = Sink_detach(sink)
    /\ Arc_drop(1)
    /\ Returns("detach", 0, Unit)
    /\ UNCHANGED <<stream, lock, nextId, newsrc>>
    /\ UNCHANGED audvars
    /\ UNCHANGED histvars

\* Faulty variant: sleep_until_end forwarded to a method that does not block.
sleep_until_end_as_empty ==
    Forward("sleep_until_end", 0, sink, Unit) /\ UNCHANGED clearedTo

\* The handle goes out of scope: its fields are dropped, the Sink (which
\* is stopped: it leaves its queued sources to the audio thread) and the
\* handle's clone of the Arc.  The sources keep their clones.
drop ==
    /\ Alive
    /\ handle' = "dropped"
    /\ Arc_drop(1)
    /\ UNCHANGED <<stream, lock, sink, nextId>>
    /\ UNCHANGED ctlvars
    /\ UNCHANGED audvars
    /\ UNCHANGED histvars

\* sleep_until_end is entered; it blocks inside the sink.
sleep_until_end ==
    /\ Alive
    /\ ctlpc' = "sleeping"
    /\ ctlop' = "sleep_until_end"
    /\ ctlarg' = 0
    /\ UNCHANGED <<strong, stream, handle, cell, lock, sink, nextId, newsrc, ret>>
    /\ UNCHANGED audvars
    /\ UNCHANGED histvars

\* The queue has drained: sleep_until_end returns.
SleepDone ==
    /\ ctlpc = "sleeping"
    /\ Sink_drained(sink)
    /\ Returns("sleep_until_end", 0, Unit)
    /\ UNCHANGED <<strong, stream, handle, cell, lock, sink, nextId, newsrc>>
    /\ UNCHANGED audvars
    /\ UNCHANGED histvars

\* A second thread that shares the handle calls a control method while the
\* first one is blocked in sleep_until_end: the sink becomes s2.
OtherCall(s2) ==
    /\ handle = "alive"
    /\ ctlpc = "sleeping"
    /\ sink' = s2
    /\ Arc_drop(Dropped(sink.queue, s2.queue))
    /\ UNCHANGED <<stream, handle, lock, nextId>>
    /\ UNCHANGED ctlvars
    /\ UNCHANGED audvars
    /\ UNCHANGED <<lastSet, devTime, writes>>

other_play == sink.paused /\ OtherCall(Sink_play(sink)) /\ UNCHANGED clearedTo
other_stop ==
    /\ Sink_can_drop
    /\ sink.queue # <<>>
    /\ OtherCall(Sink_stop(sink))
    /\ UNCHANGED clearedTo
other_clear ==
    /\ Sink_can_drop
    /\ sink.queue # <<>>
    /\ OtherCall(Sink_clear(sink))
    /\ clearedTo' = sink.queue[Len(sink.queue)].id

\* ------------------------------------------------------------ audio thread
DevCap == Interval + Block
HasSink == handle \in {"alive", "detached"}
Playing == HasSink /\ ~sink.paused /\ sink.queue # <<>>

\* The head source of the queue yields one sample; after its last sample it
\* has ended and leaves the queue.
Produce(q) ==
    IF q[1].remaining = 1
    THEN Tail(q)
    ELSE <<[q[1] EXCEPT !.remaining = @ - 1, !.stale = Later(@, Interval + 1)]>> \o Tail(q)

\* The device asks for a sample while the sink is paused or has nothing
\* queued: silence, no source is pulled.
AudSilence ==
    /\ audpc = "idle"
    /\ HasSink
    /\ ~Playing
    /\ devTime' = Later(devTime, DevCap)
    /\ UNCHANGED <<strong, stream, handle, cell, lock, sink, nextId, lastSet, clearedTo, writes>>
    /\ UNCHANGED ctlvars
    /\ UNCHANGED audvars

\* PeriodicAccess::next of the head source, interval not yet elapsed: the
\* sample is pulled from the adapter without a tick.
AudPull ==
    /\ audpc = "idle"
    /\ Playing
    /\ sink.queue[1].until > 1
    /\ sink' = [sink EXCEPT !.queue = Produce([@ EXCEPT ![1].until = @ - 1])]
    /\ Arc_drop(Dropped(sink.queue, sink'.queue))
    /\ devTime' = Later(devTime, DevCap)
    /\ UNCHANGED <<stream, handle, lock, nextId, lastSet, clearedTo, writes>>
    /\ UNCHANGED ctlvars
    /\ UNCHANGED audvars

\* PeriodicAccess::next of the head source, interval elapsed: the callback
\* of append is called before the sample is pulled.
AudTick ==
    /\ audpc = "idle"
    /\ Playing
    /\ sink.queue[1].until = 1
    /\ audpc' = "cb_lock"
    /\ UNCHANGED <<strong, stream, handle, cell, lock, sink, nextId, asnap>>
    /\ UNCHANGED ctlvars
    /\ UNCHANGED histvars

\* let pos = positions.lock().unwrap();
CbLock ==
    /\ audpc = "cb_lock"
    /\ CanLock("aud")
    /\ lock' = "aud"
    /\ audpc' = "cb_emitter"
    /\ UNCHANGED <<strong, stream, handle, cell, sink, nextId, asnap>>
    /\ UNCHANGED ctlvars
    /\ UNCHANGED histvars

\* The arguments of set_positions are read one after the other.
CbRead(f) ==
    /\ audpc = IF f = "emitter_position" THEN "cb_emitter" ELSE "cb_left"
    /\ f \in {"emitter_position", "left_ear"}
    /\ asnap' = [asnap EXCEPT ![f] = cell[f]]
    /\ audpc' = IF f = "emitter_position" THEN "cb_left" ELSE "cb_right"
    /\ UNCHANGED <<strong, stream, handle, cell, lock, sink, nextId>>
    /\ UNCHANGED ctlvars
    /\ UNCHANGED histvars

\* Faulty variant: the two ears handed to set_positions in the wrong order.
callback_positions_swapped ==
    [emitter_position |-> asnap.emitter_position,
     left_ear         |-> cell.right_ear,
     right_ear        |-> asnap.left_ear]

\* Faulty variant: the callback refreshes the emitter only and hands the
\* adapter's own ears back to it.
callback_positions_emitter_only ==
    [emitter_position |-> asnap.emitter_position,
     left_ear         |-> sink.queue[1].pos.left_ear,
     right_ear        |-> sink.queue[1].pos.right_ear]

\* The triple the callback hands to set_positions once pos.right_ear is read.
callback_positions ==
    [emitter_position |-> asnap.emitter_position,
     left_ear         |-> asnap.left_ear,
     right_ear        |-> cell.right_ear]

\* i.set_positions(pos.emitter_position, pos.left_ear, pos.right_ear);
CbSetPositions ==
    /\ audpc = "cb_right"
    /\ sink' = [sink EXCEPT !.queue[1] =
                   Spatial_set_positions(@, callback_positions.emitter_position,
                                         callback_positions.left_ear,
                                         callback_positions.right_ear)]
    /\ asnap' = NoCell
    /\ audpc' = "cb_unlock"
    /\ UNCHANGED <<strong, stream, handle, cell, lock, nextId>>
    /\ UNCHANGED ctlvars
    /\ UNCHANGED histvars

\* The callback returns: pos is dropped, the lock released.  The sample of
\* this tick is not pulled yet.
CbDone ==
    /\ audpc = "cb_unlock"
    /\ lock' = "free"
    /\ audpc' = "tick_pull"
    /\ UNCHANGED <<strong, stream, handle, cell, sink, nextId, asnap>>
    /\ UNCHANGED ctlvars
    /\ UNCHANGED histvars

\* Back in PeriodicAccess::next after the callback: the shell starts a new
\* interval and pulls the sample of this tick from the adapter.
TickPull ==
    /\ audpc = "tick_pull"
    /\ sink' = [sink EXCEPT !.queue = Produce([@ EXCEPT ![1].until = Interval])]
    /\ Arc_drop(Dropped(sink.queue, sink'.queue))
    /\ devTime' = Later(devTime, DevCap)
    /\ audpc' = "idle"
    /\ writes' = IF Counted THEN 0 ELSE writes
    /\ UNCHANGED <<stream, handle, lock, nextId, asnap, lastSet, clearedTo>>
    /\ UNCHANGED ctlvars

\* The audio thread finds the sink of a dropped handle stopped: it starts
\* no pull and drops the queued sources, each with its clone of the Arc.
AudStopped ==
    /\ audpc = "idle"
    /\ handle = "dropped"
    /\ sink.queue # <<>>
    /\ sink' = Sink_stop(sink)
    /\ Arc_drop(Dropped(sink.queue, sink'.queue))
    /\ UNCHANGED <<stream, handle, lock, nextId>>
    /\ UNCHANGED ctlvars
    /\ UNCHANGED audvars
    /\ UNCHANGED histvars

\* --------------------------------------------------------- poisoned lock
\* lock() of a poisoned Mutex gives Err and unwrap() panics.
Poisoned == lock = "poisoned"

\* A call made by append while it holds pos_lock (Spatial::new,
\* periodic_access, the sink's append before it has queued the source)
\* panics: the unwinding drops the guard, which poisons the Mutex, the
\* source and the clone of the Arc.
AppPanic ==
    /\ ctlpc \in {"app_new", "app_push"}
    /\ lock' = "poisoned"
    /\ newsrc' = NoSrc
    /\ Arc_drop(1)
    /\ ctlpc' = "ret"
    /\ ret' = Panic
    /\ UNCHANGED <<stream, handle, sink, nextId, ctlop, ctlarg>>
    /\ UNCHANGED audvars
    /\ UNCHANGED histvars

\* The sink's append panics after it has queued the source: the source
\* stays queued with its clone of the Arc, and the unwinding drops the guard,
\* which poisons the Mutex.
AppPanicQueued ==
    /\ ctlpc = "app_push"
    /\ sink' = Sink_append(sink, newsrc)
    /\ nextId' = nextId + 1
    /\ newsrc' = NoSrc
    /\ lock' = "poisoned"
    /\ ctlpc' = "ret"
    /\ ret' = Panic
    /\ UNCHANGED <<strong, stream, handle, cell, ctlop, ctlarg>>
    /\ UNCHANGED audvars
    /\ UNCHANGED histvars

\* set_positions panics inside the callback, which holds pos: the Mutex is
\* poisoned and the audio thread is gone.
CbPanic ==
    /\ audpc = "cb_right"
    /\ lock' = "poisoned"
    /\ audpc' = "panicked"
    /\ asnap' = NoCell
    /\ UNCHANGED <<strong, stream, handle, cell, sink, nextId>>
    /\ UNCHANGED ctlvars
    /\ UNCHANGED histvars

\* self.positions.lock().unwrap() of a setter on the poisoned Mutex.
SetLockPoisoned ==
    /\ ctlpc = "set_lock"
    /\ Poisoned
    /\ ctlpc' = "ret"
    /\ ret' = Panic
    /\ UNCHANGED <<strong, stream, handle, cell, lock, sink, nextId, ctlop, ctlarg, newsrc>>
    /\ UNCHANGED audvars
    /\ UNCHANGED histvars

\* self.positions.lock().unwrap() of append on the poisoned Mutex; the clone
\* of line 63 is dropped by the unwinding.
AppLockPoisoned ==
    /\ ctlpc = "app_lock"
    /\ Poisoned
    /\ Arc_drop(1)
    /\ ctlpc' = "ret"
    /\ ret' = Panic
    /\ UNCHANGED <<stream, handle, lock, sink, nextId, ctlop, ctlarg, newsrc>>
    /\ UNCHANGED audvars
    /\ UNCHANGED histvars

\* positions.lock().unwrap() of the callback on the poisoned Mutex.
CbLockPoisoned ==
    /\ audpc = "cb_lock"
    /\ Poisoned
    /\ audpc' = "panicked"
    /\ UNCHANGED <<strong, stream, handle, cell, lock, sink, nextId, asnap>>
    /\ UNCHANGED ctlvars
    /\ UNCHANGED histvars

Panics == AppPanic \/ AppPanicQueued \/ CbPanic \/ SetLockPoisoned \/ AppLockPoisoned \/ CbLockPoisoned

\* ------------------------------------------------------------ specification
InitWith(clock, count) ==
    /\ stream \in Streams
    /\ handle = "none"
    /\ cell = NoCell
    /\ strong = 0
    /\ lock = "free"
    /\ sink = NoSink
    /\ nextId = 0
    /\ ctlpc = "idle"
    /\ ctlop = "none"
    /\ ctlarg = 0
    /\ newsrc = NoSrc
    /\ ret = NoRet
    /\ audpc = "idle"
    /\ asnap = NoCell
    /\ lastSet = NoCell
    /\ devTime = clock
    /\ clearedTo = 0
    /\ writes = count

\* A run that keeps no time.
Init == InitWith(-1, -1)
\* A run that keeps the time since set_left_ear_position last returned.
InitTimed == InitWith(0, -1)
\* A run that counts the setters that return between two ticks.
InitCounted == InitWith(-1, 0)

Setters ==
    \E pos \in Vecs :
        \/ set_emitter_position(pos)
        \/ set_left_ear_position(pos)
        \/ set_right_ear_position(pos)

SetterSteps == SetLock \/ (\E i \in {1, 2} : SetWrite(i)) \/ SetDone

AppendSteps == (\E n \in SrcLens : append(n)) \/ AppLock \/ AppNew \/ AppPush \/ AppDone

Forwardings ==
    \/ volume \/ speed \/ is_paused \/ empty \/ len
    \/ (\E v \in F32s : set_volume(v))
    \/ (\E v \in F32s : set_speed(v))
    \/ play \/ pause \/ clear \/ stop \/ detach
    \/ sleep_until_end \/ SleepDone

OtherThread == other_play \/ other_stop \/ other_clear

Control ==
    \/ (\E e, l, r \in Vecs : try_new(e, l, r))
    \/ Setters \/ SetterSteps \/ AppendSteps \/ Forwardings \/ Return
    \/ OtherThread \/ drop

Callback == CbLock \/ (\E f \in Fields : CbRead(f)) \/ CbSetPositions \/ CbDone

Audio == AudSilence \/ AudPull \/ AudTick \/ Callback \/ TickPull

Next == Control \/ Audio \/ AudStopped \/ Panics

Spec == Init /\ [][Next]_vars

\* --------------------------------------------------------------- scenarios
\* The callers the properties are checked with.  Each one is the program
\* above with a caller that uses some of the methods only.
Few == nextId < MaxSpatial
New == \E e, l, r \in Vecs : try_new(e, l, r)
FewAppends == ((\E n \in SrcLens : append(n)) /\ Few) \/ AppLock \/ AppNew \/ AppPush \/ AppDone

\* Positions: the caller moves the emitter and the ears and appends.
ControlPos == New \/ Setters \/ SetterSteps \/ FewAppends \/ Return
NextPos == ControlPos \/ Audio
SpecPos == Init /\ [][NextPos]_vars

\* Latency: the caller moves the left ear, appends, pauses and resumes; the
\* run keeps the time.
ControlLat ==
    \/ New \/ (\E pos \in Vecs : set_left_ear_position(pos))
    \/ SetterSteps \/ FewAppends \/ play \/ pause \/ Return
NextLat == ControlLat \/ Audio
SpecLat == InitTimed /\ [][NextLat]_vars

\* Detach: the caller moves the emitter, appends, pauses, resumes and detaches.
ControlDet ==
    \/ New \/ (\E pos \in Vecs : set_emitter_position(pos))
    \/ SetterSteps \/ FewAppends \/ play \/ pause \/ detach \/ Return
NextDet == ControlDet \/ Audio
SpecDet == Init /\ [][NextDet]_vars

\* Scheduling.  Both threads keep running: a step that stays possible is
\* taken (the caller alone is free never to call again), and a thread in
\* Mutex::lock() gets a lock that stays free.  The Mutex promises no more: a
\* thread that finds the lock taken again each time it looks may wait for
\* ever.
CtlRun == (\E i \in {1, 2} : SetWrite(i)) \/ SetDone \/ AppNew \/ AppPush \/ AppDone \/ Return
AudRun ==
    \/ AudSilence \/ AudPull \/ AudTick
    \/ (\E f \in Fields : CbRead(f)) \/ CbSetPositions \/ CbDone \/ TickPull
Fairness ==
    /\ WF_vars(CtlRun)
    /\ WF_vars(AudRun)
    /\ WF_vars(SetLock)
    /\ WF_vars(AppLock)
    /\ WF_vars(CbLock)

\* Liveness of the positions: the caller moves the emitter and the left ear
\* and appends, under the scheduling above.
ControlLive ==
    \/ New
    \/ (\E pos \in Vecs : set_emitter_position(pos) \/ set_left_ear_position(pos))
    \/ SetterSteps \/ FewAppends \/ Return
NextLive == ControlLive \/ Audio
FairPos == Init /\ [][NextLive]_vars /\ Fairness

\* Ticks: the same caller, in a run that counts the writes between the ticks.
SpecTick == InitCounted /\ [][NextLive]_vars

\* Liveness after a detach: the caller of SpecDet, under the same scheduling.
FairDet == SpecDet /\ Fairness

\* Controls: the caller appends and uses every control forwarding.
ControlFwd == New \/ AppendSteps \/ Forwardings \/ Return
NextFwd == ControlFwd \/ Audio
SpecFwd == Init /\ [][NextFwd]_vars

\* Sleep: the caller appends, pauses, resumes and sleeps until the end; a
\* second thread resumes, stops or clears the sink meanwhile.  The blocked
\* caller is woken once the queue has drained.
ControlSleep ==
    \/ New \/ FewAppends \/ play \/ pause
    \/ sleep_until_end \/ SleepDone \/ OtherThread \/ Return
NextSleep == ControlSleep \/ Audio
FairSleep == Init /\ [][NextSleep]_vars /\ Fairness /\ WF_vars(SleepDone)

\* Poison: the caller moves the emitter and appends; a call made under the
\* lock, by append or by a callback, may panic, and the caller goes on
\* after a panic of its own.
ControlPoison ==
    \/ New \/ (\E pos \in Vecs : set_emitter_position(pos))
    \/ SetterSteps \/ FewAppends \/ Return
NextPoison == ControlPoison \/ Audio \/ Panics
SpecPoison == Init /\ [][NextPoison]_vars

\* Frame: the caller uses every method, the setters, append (of one source)
\* and the control forwardings.
OneAppend == ((\E n \in SrcLens : append(n)) /\ nextId = 0) \/ AppLock \/ AppNew \/ AppPush \/ AppDone
ControlFrame == New \/ Setters \/ SetterSteps \/ OneAppend \/ Forwardings \/ Return
NextFrame == ControlFrame \/ Audio
SpecFrame == Init /\ [][NextFrame]_vars

\* Ownership: the caller appends, stops, clears, and gives the handle up by
\* detach or by dropping it.
ControlRef == New \/ AppendSteps \/ stop \/ clear \/ detach \/ drop \/ Return
NextRef == ControlRef \/ Audio \/ AudStopped
SpecRef == Init /\ [][NextRef]_vars

\* ============================================================== properties
Whole(p) == \A f \in Fields : p[f] \in Vecs
Queue == sink.queue
Queued == 1..Len(Queue)
Ids == 1..MaxSources
IsQueued(s, id) == \E i \in 1..Len(s.queue) : s.queue[i].id = id
AdapterOf(s, id) == s.queue[CHOOSE i \in 1..Len(s.queue) : s.queue[i].id = id].pos

\* C1 -- snapshot consistency.  Whatever the interleaving of the setters
\* with the snapshots of append and of the callbacks, what a snapshot has
\* read so far is what the Position Cell holds and the cell holds whole
\* vectors while it is read; so the triple handed to the adapter is the
\* content of the cell at the instant it is installed, and no adapter ever
\* stores a half-written vector.
C1_SnapshotConsistent ==
    /\ audpc \in {"cb_left", "cb_right"} =>
          /\ Whole(cell)
          /\ asnap.emitter_position = cell.emitter_position
          /\ audpc = "cb_right" => asnap.left_ear = cell.left_ear
    /\ audpc = "cb_unlock" => Queue[1].pos = cell /\ Whole(cell)
    /\ ctlpc = "app_push" => newsrc.pos = cell /\ Whole(cell)
    /\ \A i \in Queued : Whole(Queue[i].pos)

\* A callback is half way through its snapshot, emitter and left ear read
\* with different values, while a setter waits for the lock.
C1_Witness ==
    /\ audpc = "cb_right"
    /\ ctlpc = "set_lock"
    /\ asnap.emitter_position # asnap.left_ear

\* C2 -- initial state of an appended source.  The triple append gives to
\* Spatial::new holds, field by field, the argument of the last setter that
\* returned before append was entered, or the argument of try_new when no
\* setter of that field was called.
C2_AppendSeesLastSet ==
    ctlpc = "app_push" => \A f \in Fields : newsrc.pos[f] = lastSet[f]

\* A second source is built while the first one, still untouched by the
\* audio thread, holds another emitter: a setter returned between the two
\* appends and the new adapter starts with its value.
C2_Witness ==
    /\ ctlpc = "app_push"
    /\ Len(Queue) = 1
    /\ Queue[1].remaining = MaxLen
    /\ Queue[1].until = Interval
    /\ Queue[1].pos.emitter_position # newsrc.pos.emitter_position

\* C3 -- a tick sees every write that returned before it.  The step that
\* calls set_positions leaves the adapter with the content of the Position
\* Cell, which is the last written value of each field; and an adapter's
\* triple changes in no other step, so a value overwritten before the tick
\* is never installed.
C3_TickInstallsLatest ==
    [][/\ (audpc = "cb_right" /\ audpc' = "cb_unlock") =>
             /\ Queue'[1].pos = cell'
             /\ Queue'[1].pos = lastSet'
       /\ \A id \in Ids :
             (/\ IsQueued(sink, id)
              /\ IsQueued(sink', id)
              /\ AdapterOf(sink', id) # AdapterOf(sink, id)) =>
                 /\ audpc = "cb_right"
                 /\ Queue[1].id = id
                 /\ AdapterOf(sink', id) = lastSet']_vars

\* The second tick of a source has just installed the content of the cell,
\* after several setters returned since its first tick was over: the
\* adapter holds the last written triple, which differs in both the emitter
\* and the left ear from the triple the source behind it got at its append.
C3_Witness ==
    /\ audpc = "cb_unlock"
    /\ writes = 2
    /\ Queue[1].remaining <= MaxLen - Interval
    /\ Queue[1].pos = lastSet
    /\ Len(Queue) = 2
    /\ Queue[1].pos.emitter_position # Queue[2].pos.emitter_position
    /\ Queue[1].pos.left_ear # Queue[2].pos.left_ear

\* C4 as stated -- one tick interval plus one audio block of device time
\* after set_left_ear_position(L) returned, every queued source stores L,
\* whatever its place in the queue and whether or not the sink is paused.
C4_LatencyInDeviceTime ==
    (Timed /\ devTime >= Interval + Block) =>
        \A i \in Queued : Queue[i].pos.left_ear = lastSet.left_ear

\* C4 amended -- once the audio thread has pulled more than one tick
\* interval of samples from a source since set_left_ear_position(L)
\* returned, the adapter of that source stores L or a value written after L.
\* (A setter that returns between the return of a callback and the pull of
\* that tick's sample is followed by a whole interval of samples with the
\* old left ear.)
C4_LatencyInPulledSamples ==
    \A i \in Queued :
        Queue[i].stale > Interval => Queue[i].pos.left_ear = lastSet.left_ear

\* The head source has yielded more than an interval of samples since the
\* left ear was last set and stores a left ear that the source appended
\* after it did not get at its append: a tick within these samples brought
\* it.
C4_Witness ==
    /\ Len(Queue) = 2
    /\ Queue[1].stale = Interval + 1
    /\ Queue[1].pos.left_ear # Queue[2].pos.left_ear
    /\ Queue[1].pos.left_ear = lastSet.left_ear

\* C5 as stated -- no deadlock.  With the caller calling setters and append
\* in any number and order while the audio thread pulls samples and runs the
\* callbacks, every setter and every append that goes for the Position Cell
\* gets it and returns, every callback that goes for it gets it and returns,
\* and the triple a tick leaves in the adapter is the last written one.
C5_EveryWaiterAcquires ==
    /\ (ctlpc \in {"set_lock", "app_lock"}) ~> (ctlpc = "ret")
    /\ (audpc = "cb_lock") ~> (audpc = "idle")
    /\ [](audpc = "cb_unlock" => Queue[1].pos = lastSet)

\* C5 amended -- no deadlock.  Whoever holds the Position Cell can go on
\* without the thread that waits for it and releases the cell; a thread that
\* waits for it gets it and returns once the other thread has stopped going
\* for it (while the caller keeps calling setters the callback may find
\* the cell taken each time); and the triple a tick leaves in the adapter is
\* the last written one, so once the writes have stopped the next tick
\* leaves the last written value.
C5_NoDeadlock ==
    /\ [](lock = "ctl" => ENABLED CtlRun)
    /\ [](lock = "aud" => ENABLED AudRun)
    /\ (lock # "free") ~> (lock = "free")
    /\ <>[](ctlpc \in {"idle", "ret"}) => ((audpc = "cb_lock") ~> (audpc = "idle"))
    /\ <>[](audpc # "cb_lock") => ((ctlpc \in {"set_lock", "app_lock"}) ~> (ctlpc = "ret"))
    /\ [](audpc = "cb_unlock" => Queue[1].pos = lastSet)

\* The callback waits for the lock while append holds it across the call of
\* the sink's append.
C5_Witness ==
    /\ audpc = "cb_lock"
    /\ ctlpc = "app_push"
    /\ lock = "ctl"

\* C6 -- clear.  When clear() has returned the sink is empty, its length is
\* 0 and it is paused; no source that clear() removed is in the queue again
\* and the source the audio thread pulls or ticks is never one of them.
C6_ClearEmptiesAndPauses ==
    /\ (ctlpc = "ret" /\ ctlop = "clear") =>
          empty_value /\ len_value = 0 /\ is_paused_value
    /\ \A i \in Queued : Queue[i].id > clearedTo
    /\ audpc # "idle" => (Queue # <<>> /\ Queue[1].id > clearedTo)

\* clear() has returned after removing two queued sources.
C6_Witness ==
    /\ ctlpc = "ret"
    /\ ctlop = "clear"
    /\ clearedTo = 2

\* C7 as stated -- after detach() every queued source plays to its natural
\* end: the queue drains.
C7_DetachedPlaysOut == (handle = "detached") ~> (Queue = <<>>)

\* C7 amended -- detach() and every step after it remove a source only at
\* its natural end and leave the paused flag and, as long as a source holds
\* it, the Position Cell as they are; a callback after the detach still gets the cell and installs its
\* content, which is the content at the time of the detach; and if the sink
\* is not paused when it is detached every queued source plays to its end.
C7_DetachKeepsPlaying ==
    /\ [][handle' = "detached" =>
             /\ handle = "detached" =>
                   /\ sink'.paused = sink.paused
                   /\ Queue' # <<>> => cell' = cell
             /\ Len(Queue') <= Len(Queue)
             /\ Len(Queue') < Len(Queue) =>
                   (Queue[1].remaining = 1 /\ Queue' = Tail(Queue))]_vars
    /\ [][(handle = "detached" /\ audpc = "cb_right" /\ audpc' = "cb_unlock") =>
             Queue'[1].pos = cell]_vars
    /\ (handle = "detached" /\ audpc = "cb_lock") ~> (audpc = "idle")
    /\ (handle = "detached" /\ ~sink.paused) ~> (Queue = <<>>)

\* After the detach has returned a tick has installed, in the head source, a
\* triple that the source appended after it did not get at its append.
C7_Witness ==
    /\ handle = "detached"
    /\ ctlpc = "idle"
    /\ audpc = "cb_unlock"
    /\ Len(Queue) = 2
    /\ Queue[1].pos # Queue[2].pos

\* C8 -- try_new.  When Sink::try_new fails, try_new returns that PlayError
\* and there is no handle, no Position Cell and no sink; when it succeeds
\* the Position Cell holds exactly the three arguments; no other method
\* returns an error.
C8_TryNew ==
    /\ stream \in PlayErrors => handle \in {"none", "failed"}
    /\ handle = "failed" =>
          /\ stream \in PlayErrors
          /\ cell = NoCell /\ sink = NoSink /\ lock = "free"
          /\ ctlpc = "ret" => (ret[1] = "err" /\ ret[2] = stream)
    /\ (ctlpc = "ret" /\ ctlop = "try_new" /\ handle = "alive") =>
          /\ ret[1] = "ok"
          /\ cell = [emitter_position |-> ctlarg[1], left_ear |-> ctlarg[2],
                     right_ear |-> ctlarg[3]]
    /\ ret[1] = "err" => ctlop = "try_new"

\* try_new has just returned the DecoderError of the sink's constructor.
C8_Witness ==
    /\ handle = "failed"
    /\ ctlpc = "ret"
    /\ ret = <<"err", "DecoderError">>

\* The forwarded methods, and what the same call does on the Sink itself.
ForwardedOps ==
    {"volume", "set_volume", "speed", "set_speed", "play", "pause", "is_paused",
     "clear", "stop", "detach", "sleep_until_end", "empty", "len"}
DirectSink(op, arg, s) ==
    CASE op = "set_volume" -> Sink_set_volume(s, arg)
      [] op = "set_speed"  -> Sink_set_speed(s, arg)
      [] op = "play"       -> Sink_play(s)
      [] op = "pause"      -> Sink_pause(s)
      [] op = "clear"      -> Sink_clear(s)
      [] op = "stop"       -> Sink_stop(s)
      [] op = "detach"     -> Sink_detach(s)
      [] OTHER             -> s
DirectRet(op, s) ==
    CASE op = "volume"    -> <<"f32", Sink_volume(s)>>
      [] op = "speed"     -> <<"f32", Sink_speed(s)>>
      [] op = "is_paused" -> <<"bool", Sink_is_paused(s)>>
      [] op = "empty"     -> <<"bool", Sink_empty(s)>>
      [] op = "len"       -> <<"usize", Sink_len(s)>>
      [] OTHER            -> Unit
DirectReady(op, s) ==
    CASE op \in {"clear", "stop"}  -> Sink_can_drop
      [] op = "sleep_until_end"    -> Sink_drained(s)
      [] OTHER                     -> TRUE

\* C9 -- forwarding fidelity.  Whatever came before, the step in which a
\* forwarded method returns leaves the sink as the same call on the Sink
\* itself leaves it, returns what that call returns, can return when that
\* call can, and touches neither the content of the Position Cell nor its
\* lock (detach consumes the handle and with it the handle's reference to
\* the cell, which is released if no queued source holds it).
C9_ForwardingFidelity ==
    [][(ctlpc \in {"idle", "sleeping"} /\ ctlpc' = "ret" /\ ctlop' \in ForwardedOps) =>
          /\ DirectReady(ctlop', sink)
          /\ sink' = DirectSink(ctlop', ctlarg', sink)
          /\ ret' = DirectRet(ctlop', sink)
          /\ lock' = lock
          /\ cell' # NoCell => cell' = cell
          /\ cell' = NoCell => (ctlop' = "detach" /\ Queue = <<>>)]_vars

\* set_speed(2) has returned on a sink that plays at unity volume.
C9_Witness ==
    /\ ctlpc = "ret"
    /\ ctlop = "set_speed"
    /\ sink.speed = 2
    /\ sink.volume = 1
    /\ Queue # <<>>

\* C10 -- length.  empty() is true exactly when len() is 0; a fresh handle
\* has length 0; append returns no error and the step that hands the source
\* to the sink makes len() one more; while the first appended source is
\* still queued (nothing has finished or been dropped) len() is the number
\* of appends.
C10_LenCountsAppends ==
    /\ [](HasSink => (empty_value <=> len_value = 0))
    /\ []((handle = "alive" /\ nextId = 0) => len_value = 0)
    /\ []((ctlpc = "ret" /\ ctlop = "append") => ret = Unit)
    /\ []((Queue # <<>> /\ Queue[1].id = 1) => len_value = nextId)
    /\ [][(ctlpc = "app_push" /\ ctlpc' = "app_unlock") =>
             len_value' = len_value + 1]_vars

\* Three sources appended, all still queued.
C10_Witness ==
    /\ nextId = 3
    /\ len_value = 3
    /\ ~empty_value

\* The samples left in the queued sources.
Samples(s) == [i \in 1..Len(s.queue) |-> s.queue[i].remaining]

\* C11 as stated -- pause and play.  The step in which pause() returns leaves
\* the queue, and so len(), as it is and is_paused() true, and from then
\* until play() the audio thread delivers no sample: the sources and the
\* samples left in them stay as they are.
C11_NoSampleWhilePaused ==
    /\ [][(ctlpc = "idle" /\ ctlpc' = "ret" /\ ctlop' = "pause") =>
             (is_paused_value' /\ len_value' = len_value /\ Queue' = Queue)]_vars
    /\ [][(sink.paused /\ sink'.paused /\ ctlpc' = ctlpc) =>
             Samples(sink') = Samples(sink)]_vars

\* C11 amended -- pause and play.  The step in which pause() returns leaves
\* the queue, and so len(), as it is and is_paused() true; while the sink is
\* paused the audio thread starts no pull of a source, and the one pull it
\* may be inside of when pause() returns delivers its sample (and takes the
\* source out of the queue if it was its last); but for that sample the
\* samples left in every queued source stay as they are until play(); the
\* step in which play() returns leaves the queue as it is and is_paused()
\* false, after which the head source can be pulled again; pause() on a
\* paused sink and play() on a playing one change nothing of the sink.
C11_PauseRetainsQueue ==
    /\ [][(ctlpc = "idle" /\ ctlpc' = "ret" /\ ctlop' = "pause") =>
             /\ is_paused_value'
             /\ len_value' = len_value
             /\ Queue' = Queue
             /\ sink.paused => sink' = sink]_vars
    /\ [][(ctlpc = "idle" /\ ctlpc' = "ret" /\ ctlop' = "play") =>
             /\ ~is_paused_value'
             /\ len_value' = len_value
             /\ Queue' = Queue
             /\ ~sink.paused => sink' = sink]_vars
    /\ [][(sink.paused /\ audpc = "idle") =>
             /\ audpc' = "idle"
             /\ \A id \in Ids :
                   (IsQueued(sink, id) /\ IsQueued(sink', id)) =>
                      \E i \in Queued, j \in 1..Len(Queue') :
                         /\ Queue[i].id = id
                         /\ Queue'[j].id = id
                         /\ Queue'[j].remaining = Queue[i].remaining]_vars
    /\ [][(sink.paused /\ sink'.paused /\ ctlpc' = ctlpc
             /\ Samples(sink') # Samples(sink)) =>
                (audpc = "tick_pull" /\ audpc' = "idle")]_vars
    /\ []((Playing /\ audpc = "idle") => ENABLED (AudPull \/ AudTick))

\* pause() has returned on a sink with two queued sources while the audio
\* thread is inside a tick of the first, its sample not yet pulled.
C11_Witness ==
    /\ ctlpc = "ret"
    /\ ctlop = "pause"
    /\ is_paused_value
    /\ len_value = 2
    /\ audpc = "tick_pull"

\* C12 -- sleep_until_end.  It returns only in a step that finds the queue
\* drained, never while a source is queued; once the queue has drained it
\* returns, whether the sources ended or were removed by stop() or clear() of
\* another thread, and on a sink that is not paused it does return; there is
\* no timeout: with the sink paused, a source queued and the audio thread
\* between two pulls, it stays blocked and the queue stays as it is until
\* another thread resumes, stops or clears the sink.
C12_SleepUntilDrained ==
    /\ [][(ctlpc # "ret" /\ ctlpc' = "ret" /\ ctlop' = "sleep_until_end") =>
             (ctlpc = "sleeping" /\ Queue = <<>> /\ sink' = sink)]_vars
    /\ [][ctlpc = "sleeping" => ctlpc' \in {"sleeping", "ret"}]_vars
    /\ (ctlpc = "sleeping" /\ Queue = <<>>) ~> (ctlpc = "ret")
    /\ (ctlpc = "sleeping" /\ ~sink.paused) ~> (ctlpc = "ret")
    /\ [][(ctlpc = "sleeping" /\ sink.paused /\ Queue # <<>> /\ audpc = "idle") =>
             /\ ctlpc' = "sleeping"
             /\ \/ (Queue' = Queue /\ sink'.paused /\ audpc' = "idle")
                \/ Queue' = <<>>
                \/ ~sink'.paused]_vars

\* sleep_until_end has returned on a paused sink: the two sources appended
\* before it were removed by the clear() of the other thread.
C12_Witness ==
    /\ ctlpc = "ret"
    /\ ctlop = "sleep_until_end"
    /\ clearedTo = 2
    /\ sink.paused

\* C13 as stated -- append holds the Position Cell for its snapshot only:
\* when it calls the append of the underlying Sink it has released the lock,
\* so neither a tick nor a setter waits for the lock while append is inside
\* that call.
C13_AppendReleasesBeforeSinkAppend ==
    ctlpc = "app_push" => lock # "ctl"

\* Who holds a clone of the Arc: the handle, every queued source (in its
\* callback closure) and the append that is building a source.
Holders ==
    (IF handle = "alive" THEN 1 ELSE 0) + Len(Queue)
    + (IF ctlpc \in {"app_lock", "app_new", "app_push"} THEN 1 ELSE 0)

\* C14 -- lifetime of the Position Cell.  The strong count of the Arc is one
\* for the handle while it exists plus one for every appended source not
\* yet finished or dropped (the source append is building counts from the
\* clone of line 63 on); the SoundPositions exists exactly while the count is
\* not 0, so while the handle exists or a source is in flight, and is
\* released with the last holder, also after detach, stop and clear; and the
\* lock is only ever held on an existing cell.
C14_CellLivesWithHolders ==
    /\ strong = Holders
    /\ (handle \in {"alive", "detached", "dropped"}) =>
          ((cell # NoCell) <=> (strong > 0))
    /\ (handle = "alive" \/ Queue # <<>>) => (cell # NoCell /\ Whole(cell))
    /\ (handle \in {"detached", "dropped"} /\ Queue = <<>>) => cell = NoCell
    /\ (lock # "free" \/ audpc # "idle") => cell # NoCell

\* The handle was detached with two sources queued and the second of them
\* has just ended: the last holder is gone and the cell is released.
C14_Witness ==
    /\ handle = "detached"
    /\ nextId = 2
    /\ Queue = <<>>
    /\ strong = 0
    /\ cell = NoCell
    /\ ~sink.paused

SetterOps == {"set_emitter_position", "set_left_ear_position", "set_right_ear_position"}

\* C15 -- frame.  Every step of a position setter, from its call to its
\* return, leaves the two vectors of the other setters and the whole sink
\* (queue, volume, speed, paused flag) as they are, and when the setter
\* returns its own vector is its argument; every step of append and of a
\* control forwarding leaves the three vectors of the Position Cell as they
\* are (detach on an empty queue releases the cell with the handle).
C15_Frame ==
    [][/\ (ctlpc' # ctlpc /\ ctlop' \in SetterOps) =>
             /\ \A f \in Fields \ {FieldOf(ctlop')} : cell'[f] = cell[f]
             /\ sink' = sink
             /\ ctlpc' = "ret" => cell'[FieldOf(ctlop')] = ctlarg'
       /\ (ctlpc' # ctlpc /\ ctlop' \in ForwardedOps \cup {"append"}) =>
             /\ cell' # NoCell => cell' = cell
             /\ cell' = NoCell => (ctlop' = "detach" /\ Queue = <<>>)]_vars

\* set_right_ear_position has returned on a playing sink with a source
\* queued: the right ear alone differs from the two other vectors, which
\* are those of try_new, and volume and speed are the ones set before.
C15_Witness ==
    /\ ctlpc = "ret"
    /\ ctlop = "set_right_ear_position"
    /\ cell.right_ear = VecB
    /\ cell.emitter_position = VecA
    /\ cell.left_ear = VecA
    /\ sink.volume = 2
    /\ Queue # <<>>

\* What the audio thread has done to a source: its adapter's triple, the
\* samples to its next tick and the samples it has left.
Progress(src) == <<src.pos, src.until, src.remaining>>
SourceOf(s, id) == s.queue[CHOOSE i \in 1..Len(s.queue) : s.queue[i].id = id]

\* C16 -- the callback runs inside a pull only.  The audio thread enters a
\* callback only from a pull of the head source of a playing sink whose
\* interval has elapsed, and while it is inside a callback that source is
\* the head; append queues the source with the triple it snapshotted and a
\* whole interval to go before its first tick; a source behind the head, and
\* every source of a paused sink the audio thread is not inside a pull of,
\* is neither pulled nor ticked; and the triple of an adapter changes only
\* in the set_positions step of a tick of its own source, so until its first
\* tick it is the triple of the append whatever is written meanwhile.
C16_TickOnlyInsidePull ==
    /\ [][(audpc = "idle" /\ audpc' # "idle") =>
             (Playing /\ Queue[1].until = 1 /\ audpc' = "cb_lock" /\ sink' = sink)]_vars
    /\ [](audpc # "idle" => (Queue # <<>> /\ Queue[1].until = 1))
    /\ [][(ctlpc = "app_push" /\ ctlpc' = "app_unlock") =>
             /\ Queue'[Len(Queue')].pos = newsrc.pos
             /\ Queue'[Len(Queue')].until = Interval]_vars
    /\ [][\A id \in Ids :
             (IsQueued(sink, id) /\ IsQueued(sink', id)) =>
                /\ (Queue[1].id # id \/ (sink.paused /\ audpc = "idle")) =>
                      Progress(SourceOf(sink', id)) = Progress(SourceOf(sink, id))
                /\ AdapterOf(sink', id) # AdapterOf(sink, id) =>
                      (audpc = "cb_right" /\ audpc' = "cb_unlock" /\ Queue[1].id = id)]_vars

\* Two sources wait in a paused sink; the left ear was set after both
\* appends and a full interval and block of device time has gone by since:
\* no tick has run and both adapters still hold the left ear of their append.
C16_Witness ==
    /\ sink.paused
    /\ audpc = "idle"
    /\ Len(Queue) = 2
    /\ devTime = DevCap
    /\ Queue[1].pos.left_ear # lastSet.left_ear
    /\ Queue[2].pos.left_ear # lastSet.left_ear
    /\ Queue[2].until = Interval

\* C17 -- poisoned lock.  Once the Mutex is poisoned it stays so and nobody
\* is inside a critical section; every setter and every append that goes for
\* it panics, and so does every callback; none of them writes a vector,
\* queues a source or installs a triple; and neither they nor any other
\* method but try_new returns an error value.
C17_PoisonAborts ==
    /\ [](Poisoned =>
             /\ ctlpc \in {"idle", "ret", "set_lock", "app_lock"}
             /\ audpc \in {"idle", "cb_lock", "tick_pull", "panicked"})
    /\ [][Poisoned =>
             /\ Poisoned'
             /\ cell' = cell
             /\ Len(Queue') <= Len(Queue)
             /\ \A id \in Ids :
                   (IsQueued(sink, id) /\ IsQueued(sink', id)) =>
                      AdapterOf(sink', id) = AdapterOf(sink, id)
             /\ (ctlpc \in {"set_lock", "app_lock"} /\ ctlpc' # ctlpc) =>
                   (ctlpc' = "ret" /\ ret' = Panic)
             /\ (audpc = "cb_lock" /\ audpc' # audpc) => audpc' = "panicked"]_vars
    /\ []((ctlpc = "ret" /\ ctlop # "try_new") => ret \in {Unit, Panic})

\* A callback panicked in set_positions; the setter called after it has
\* panicked too and the cell keeps the emitter it had.
C17_Witness ==
    /\ Poisoned
    /\ audpc = "panicked"
    /\ ctlpc = "ret"
    /\ ctlop = "set_emitter_position"
    /\ ret = Panic
    /\ cell.emitter_position # ctlarg
====
